---- MODULE Spec2Model ----
(***************************************************************************)
(* Request pipeline of the Hono API (app, withPrisma, clerkAuth,           *)
(* zValidator, the users/posts/health route handlers, errorHandler and     *)
(* notFoundHandler) over a relational store with a unique email per user.  *)
(***************************************************************************)
EXTENDS Integers, Sequences, FiniteSets, TLC

\* ------------------------------------------------------------------ bounds
NumSlots == 2
MaxUserId == 2
MaxPostId == 2
MaxIssues == 2

Slots == 1..NumSlots
UserIds == 1..MaxUserId
PostIds == 1..MaxPostId

\* ------------------------------------------------------------- environment
Absent == "absent"
Present == "present"

Runtimes == {"workerd", "node"}
NodeEnvs == {"production", "development", "test", Absent}

\* Values of FRONTEND_URL.
Origins == {Absent, "https://a.example", "https://b.example"}

EnvNames ==
  {"CLERK_SECRET_KEY", "VITE_CLERK_PUBLISHABLE_KEY", "CLERK_PUBLISHABLE_KEY",
   "PRISMA_ACCELERATE_URL", "DATABASE_URL"}

\* An environment: the runtime, NODE_ENV and FRONTEND_URL as process.env
\* (nodeEnv, procOrigin) and as the platform binding c.env (bindEnv,
\* bindOrigin) have them, and the other names set in each of the two.
AllEnvs ==
  [runtime : Runtimes, nodeEnv : NodeEnvs, bindEnv : NodeEnvs,
   procOrigin : Origins, bindOrigin : Origins,
   bind : SUBSET EnvNames, proc : SUBSET EnvNames]

\* hono/adapter env(c): c.env on workerd, process.env elsewhere.
EnvVars(e) ==
  IF e.runtime = "workerd"
  THEN [from |-> "binding", names |-> e.bind]
  ELSE [from |-> "process", names |-> e.proc]

Throws == <<"throws", "">>

\* Where one variable is set in the environments the pipeline is run in.
Placements == {"none", "binding", "process"}

Placed(place, secret, publishable, databaseUrl) ==
  (IF secret = place THEN {"CLERK_SECRET_KEY"} ELSE {}) \cup
  (IF publishable = place THEN {"VITE_CLERK_PUBLISHABLE_KEY"} ELSE {}) \cup
  (IF databaseUrl = place THEN {"DATABASE_URL"} ELSE {})

Envs ==
  { [runtime |-> rt, nodeEnv |-> ne, bindEnv |-> Absent,
     procOrigin |-> Absent, bindOrigin |-> Absent,
     bind |-> Placed("binding", s, p, d),
     proc |-> Placed("process", s, p, d)] :
      rt \in Runtimes, ne \in NodeEnvs, s \in Placements,
      p \in Placements, d \in Placements } \cap
  { e \in AllEnvs : e.runtime = "node" => e.bind = {} }

\* ------------------------------------------------------------ thrown values
NoCode == "none"

IssuePaths == {<<>>, <<"email">>, <<"author", "id">>}

\* issue.path.join(".")
JoinDot(p) ==
  CASE p = <<>> -> ""
    [] p = <<"email">> -> "email"
    [] p = <<"author", "id">> -> "author.id"

\* A thrown JavaScript value: its class, and the own properties the error
\* boundary looks at.
Thrown(kind, status, message, code, hasIssues, issues) ==
  [kind |-> kind, status |-> status, message |-> message, code |-> code,
   hasIssues |-> hasIssues, issues |-> issues, hasCause |-> FALSE]

HTTPException(status, message) ==
  Thrown("HTTPException", status, message, NoCode, FALSE, <<>>)

ErrorOf(message) == Thrown("Error", 0, message, NoCode, FALSE, <<>>)

PrismaError(code) ==
  Thrown("Error", 0, "Invalid prisma invocation", code, FALSE, <<>>)

NoError == Thrown("nothing", 0, "", NoCode, FALSE, <<>>)

\* ---------------------------------------------------------------- responses
EnvelopeKeys == {"error", "timestamp", "path"}

NoDetails == [kind |-> "none", items |-> <<>>]

Details(kind) == [kind |-> kind, items |-> <<>>]

\* A JSON response: the HTTP status, the body's top-level keys, the keys of
\* its error object (none when error is absent or a string), and the values
\* the properties are about; nulls: the pagination keys whose number is NaN
\* or infinite, which JSON.stringify writes as null.
Json(status, keys) ==
  [status |-> status, keys |-> keys, errorKeys |-> {}, message |-> "",
   code |-> "", details |-> NoDetails, tag |-> "", database |-> "",
   items |-> <<>>, page |-> 0, limit |-> 0, total |-> 0, totalPages |-> 0,
   nulls |-> {}, headers |-> {}, directives |-> {}]

NoResponse == Json(0, {})

Envelope(status, message, code, details) ==
  [Json(status, EnvelopeKeys) EXCEPT
     !.errorKeys = {"message", "code"} \cup
                   (IF details.kind = "none" THEN {} ELSE {"details"}),
     !.message = message, !.code = code, !.details = details]

\* errorHandler: getRuntimeKey() and process.env.NODE_ENV only.
IsDevelopment(e) ==
  e.runtime # "workerd" \/ e.nodeEnv = "development"

\* error.status.toString(); JSON.stringify drops a details key whose value is
\* undefined, so details: error.cause appears only when a cause is set.
StatusString(s) ==
  CASE s = 400 -> "400" [] s = 401 -> "401" [] s = 404 -> "404"
    [] s = 409 -> "409" [] s = 500 -> "500" [] OTHER -> "other"

IssueDetails(issues) ==
  [kind |-> "issues",
   items |-> [i \in 1..Len(issues) |->
                [path |-> JoinDot(issues[i].path),
                 message |-> issues[i].message]]]

IsObject(err) == err.kind \in {"HTTPException", "Error", "object"}

IsError(err) == err.kind \in {"HTTPException", "Error"}

Unclassified(err, dev) ==
  Envelope(500,
           IF dev
           THEN IF IsError(err) THEN err.message
                ELSE "An unexpected error occurred"
           ELSE "Internal server error",
           "INTERNAL_SERVER_ERROR",
           IF dev /\ IsError(err) THEN Details("stack") ELSE NoDetails)

ErrorHandlerIssuesFirst(err, dev) ==
  IF err.kind = "HTTPException"
  THEN Envelope(err.status, err.message, StatusString(err.status),
                IF dev /\ err.hasCause THEN Details("cause") ELSE NoDetails)
  ELSE IF IsObject(err) /\ err.hasIssues
  THEN Envelope(400, "Validation failed", "VALIDATION_ERROR",
                IssueDetails(err.issues))
  ELSE IF IsObject(err) /\ err.code = "P2002"
  THEN Envelope(409, "A record with this value already exists",
                "UNIQUE_CONSTRAINT_VIOLATION", NoDetails)
  ELSE IF IsObject(err) /\ err.code = "P2025"
  THEN Envelope(404, "Record not found", "NOT_FOUND", NoDetails)
  ELSE Unclassified(err, dev)

ErrorHandlerNoHttp(err, dev) ==
  IF IsObject(err) /\ err.code = "P2002"
  THEN Envelope(409, "A record with this value already exists",
                "UNIQUE_CONSTRAINT_VIOLATION", NoDetails)
  ELSE IF IsObject(err) /\ err.code = "P2025"
  THEN Envelope(404, "Record not found", "NOT_FOUND", NoDetails)
  ELSE IF IsObject(err) /\ err.hasIssues
  THEN Envelope(400, "Validation failed", "VALIDATION_ERROR",
                IssueDetails(err.issues))
  ELSE Unclassified(err, dev)

ErrorHandlerNoUnique(err, dev) ==
  IF err.kind = "HTTPException"
  THEN Envelope(err.status, err.message, StatusString(err.status),
                IF dev /\ err.hasCause THEN Details("cause") ELSE NoDetails)
  ELSE IF IsObject(err) /\ err.code = "P2025"
  THEN Envelope(404, "Record not found", "NOT_FOUND", NoDetails)
  ELSE IF IsObject(err) /\ err.hasIssues
  THEN Envelope(400, "Validation failed", "VALIDATION_ERROR",
                IssueDetails(err.issues))
  ELSE Unclassified(err, dev)

\* errorHandler's catch block: the first matching rule decides.
ErrorHandler(err, dev) ==
  IF err.kind = "HTTPException"
  THEN Envelope(err.status, err.message, StatusString(err.status),
                IF dev /\ err.hasCause THEN Details("cause") ELSE NoDetails)
  ELSE IF IsObject(err) /\ err.code = "P2002"
  THEN Envelope(409, "A record with this value already exists",
                "UNIQUE_CONSTRAINT_VIOLATION", NoDetails)
  ELSE IF IsObject(err) /\ err.code = "P2025"
  THEN Envelope(404, "Record not found", "NOT_FOUND", NoDetails)
  ELSE IF IsObject(err) /\ err.hasIssues
  THEN Envelope(400, "Validation failed", "VALIDATION_ERROR",
                IssueDetails(err.issues))
  ELSE Unclassified(err, dev)

NotFoundDefault == Envelope(404, "404 Not Found", "404", NoDetails)

\* notFoundHandler
NotFoundHandler ==
  Envelope(404, "Route not found", "NOT_FOUND", NoDetails)

\* ------------------------------------------------- configuration resolvers
\* env<Env>(c).NODE_ENV and env<Env>(c).FRONTEND_URL
TagOf(e) == IF e.runtime = "workerd" THEN e.bindEnv ELSE e.nodeEnv

OriginOf(e) == IF e.runtime = "workerd" THEN e.bindOrigin ELSE e.procOrigin

DefaultOrigin == "http://localhost:5173"

\* getSecureHeadersConfig(c): the headers the options switch on, and what
\* tells the two content-security-policy values apart.
GetSecureHeadersConfig(e) ==
  LET isDevelopment == TagOf(e) = "development" \/ e.nodeEnv = "development"
  IN [headers |->
        {"Content-Security-Policy", "Cross-Origin-Resource-Policy",
         "Cross-Origin-Opener-Policy", "Referrer-Policy",
         "X-Content-Type-Options", "X-DNS-Prefetch-Control",
         "X-Download-Options", "X-Frame-Options",
         "X-Permitted-Cross-Domain-Policies", "X-XSS-Protection"} \cup
        (IF isDevelopment THEN {} ELSE {"Strict-Transport-Security"}),
      directives |->
        IF isDevelopment THEN {"'unsafe-inline'", "'unsafe-eval'"}
        ELSE {"upgrade-insecure-requests"}]

SecureHeadersOnSuccess(response, e) ==
  IF response.status >= 400 THEN response
  ELSE [response EXCEPT !.headers = GetSecureHeadersConfig(e).headers,
                        !.directives = GetSecureHeadersConfig(e).directives]

\* secureHeaders(config): after next() returns, the headers are set on
\* whatever response the context then holds.
SecureHeaders(response, e) ==
  [response EXCEPT !.headers = GetSecureHeadersConfig(e).headers,
                   !.directives = GetSecureHeadersConfig(e).directives]

\* getMiddlewareConfig(c?): envVars is env(c) when a context is given, then
\* NODE_ENV and FRONTEND_URL are overlaid with process.env's values where
\* those are set; tag is the resulting envVars.NODE_ENV. The logger's
\* structured and level options are left unset.
GetMiddlewareConfig(e, context) ==
  LET tag == IF e.nodeEnv # Absent THEN e.nodeEnv
             ELSE IF context THEN TagOf(e) ELSE Absent
      origin == IF e.procOrigin # Absent THEN e.procOrigin
                ELSE IF context THEN OriginOf(e) ELSE Absent
      isDevelopment == tag = "development" \/ e.nodeEnv = "development"
      isProduction == ~isDevelopment
  IN [context |-> context,
      tag |-> tag,
      requestId |-> TRUE,
      logger |-> TRUE,
      structured |-> FALSE,
      level |-> Absent,
      telemetry |-> isProduction,
      cors |-> TRUE,
      origin |-> IF origin # Absent THEN origin
                 ELSE IF e.procOrigin # Absent THEN e.procOrigin
                 ELSE DefaultOrigin,
      secureHeaders |-> TRUE,
      strictMode |-> isProduction,
      compress |-> FALSE]

FirstSet(e, names) ==
  LET b == EnvVars(e) IN
  IF \E i \in 1..Len(names) : names[i] \in b.names
  THEN LET i == CHOOSE i \in 1..Len(names) :
                  /\ names[i] \in b.names
                  /\ \A j \in 1..(i - 1) : names[j] \notin b.names
       IN <<b.from, names[i]>>
  ELSE IF \E i \in 1..Len(names) : names[i] \in e.proc
  THEN LET i == CHOOSE i \in 1..Len(names) :
                  /\ names[i] \in e.proc
                  /\ \A j \in 1..(i - 1) : names[j] \notin e.proc
       IN <<"process", names[i]>>
  ELSE Throws

\* getClerkSecretKey: env(c).CLERK_SECRET_KEY, then process.env, else throw.
GetClerkSecretKey(e) == FirstSet(e, <<"CLERK_SECRET_KEY">>)

\* getClerkPublishableKey: the VITE_ name before the plain one, in env(c)
\* and then in process.env.
GetClerkPublishableKey(e) ==
  FirstSet(e, <<"VITE_CLERK_PUBLISHABLE_KEY", "CLERK_PUBLISHABLE_KEY">>)

GetDatabaseUrlDirectFirst(e) ==
  FirstSet(e, <<"DATABASE_URL", "PRISMA_ACCELERATE_URL">>)

\* getDatabaseUrl(c): the pooled URL before the direct one, in env(c) and
\* then in process.env.
GetDatabaseUrl(e) ==
  FirstSet(e, <<"PRISMA_ACCELERATE_URL", "DATABASE_URL">>)

\* getDatabaseUrl(): with no context, process.env alone.
GetDatabaseUrlOfProcess(e) ==
  IF "PRISMA_ACCELERATE_URL" \in e.proc
  THEN <<"process", "PRISMA_ACCELERATE_URL">>
  ELSE IF "DATABASE_URL" \in e.proc THEN <<"process", "DATABASE_URL">>
  ELSE Throws

NoClient == 0

\* getPrismaClient(c?): given a context, createPrismaClient makes a client
\* for it from getDatabaseUrl(c); given none, the module's prismaInstance is
\* made on first use and returned from then on. made counts the clients
\* constructed so far, a client is known by its number, and url is the
\* connection string resolved by this call (Throws: the call throws).
GetPrismaClient(e, context, instance, made) ==
  IF context
  THEN IF GetDatabaseUrl(e) = Throws
       THEN [url |-> Throws, client |-> NoClient, instance |-> instance,
             made |-> made]
       ELSE [url |-> GetDatabaseUrl(e), client |-> made + 1,
             instance |-> instance, made |-> made + 1]
  ELSE IF instance # NoClient
  THEN [url |-> <<"memoized", "">>, client |-> instance, instance |-> instance,
        made |-> made]
  ELSE IF GetDatabaseUrlOfProcess(e) = Throws
  THEN [url |-> Throws, client |-> NoClient, instance |-> NoClient,
        made |-> made]
  ELSE [url |-> GetDatabaseUrlOfProcess(e), client |-> made + 1,
        instance |-> made + 1, made |-> made + 1]

\* error.message.includes("Unauthorized") || error.message.includes("Invalid")
MentionsAuthFailure(message) ==
  message \in {"Unauthorized: Authentication required",
               "Invalid prisma invocation", "Invalid user ID",
               "Invalid post ID"}

\* The synchronous part of clerkAuth: createClerkMiddleware(c) inside the
\* try block, and the catch block's translation of what it throws.
CreateClerkMiddleware(e) ==
  IF GetClerkSecretKey(e) = Throws
  THEN ErrorOf("CLERK_SECRET_KEY must be set in environment variables")
  ELSE IF GetClerkPublishableKey(e) = Throws
  THEN ErrorOf("VITE_CLERK_PUBLISHABLE_KEY must be set in environment variables")
  ELSE NoError

ClerkCatchAlways401(err) ==
  IF err.kind = "HTTPException" THEN err
  ELSE HTTPException(401, "Unauthorized: Invalid or expired token")

ClerkCatch(err) ==
  IF err.kind = "HTTPException" THEN err
  ELSE IF IsError(err) /\ MentionsAuthFailure(err.message)
  THEN HTTPException(401, "Unauthorized: Invalid or expired token")
  ELSE HTTPException(500, "Authentication error")

\* ----------------------------------------------------------------- logger
LogLevels == <<"debug", "info", "warn", "error">>

\* levels.indexOf(level)
IndexOf(level) ==
  IF \E i \in 1..Len(LogLevels) : LogLevels[i] = level
  THEN (CHOOSE i \in 1..Len(LogLevels) : LogLevels[i] = level) - 1
  ELSE -1

ShouldLogAbove(configuredLevel, messageLevel) ==
  IndexOf(messageLevel) > IndexOf(configuredLevel)

\* shouldLog(configuredLevel, messageLevel)
ShouldLog(configuredLevel, messageLevel) ==
  IndexOf(messageLevel) >= IndexOf(configuredLevel)

\* let level = "info"; if (status >= 500) ... else if (status >= 400) ...
LevelOf(status) ==
  IF status >= 500 THEN "error"
  ELSE IF status >= 400 THEN "warn"
  ELSE "info"

LogEntry(level, message, status) ==
  [level |-> level, message |-> message, status |-> status]

\* const logLevel = config.level || "info"
LogLevelOf(cfg) == IF cfg.level = Absent THEN "info" ELSE cfg.level

\* What the logger middleware writes before next(): the structured logger
\* its "Request started" entry, the library's logger its incoming line.
RequestStarted(cfg) ==
  IF ~cfg.logger THEN <<>>
  ELSE IF ~cfg.structured THEN <<LogEntry("print", "<--", 0)>>
  ELSE IF ShouldLog(LogLevelOf(cfg), "debug")
  THEN <<LogEntry("debug", "Request started", 0)>>
  ELSE <<>>

\* What it writes after next() has returned, from c.res.status.
RequestCompleted(cfg, status) ==
  IF ~cfg.logger THEN <<>>
  ELSE IF ~cfg.structured THEN <<LogEntry("print", "-->", status)>>
  ELSE IF ShouldLog(LogLevelOf(cfg), LevelOf(status))
  THEN <<LogEntry(LevelOf(status), "Request completed", status)>>
  ELSE <<>>

ClerkAuthAwaited(err) == ClerkCatch(err)

\* What reaches app.onError of a value thrown downstream of clerkAuth, by a
\* validator or a handler: clerkAuth returns the middleware's promise from
\* inside its try block without awaiting it, so its catch block is not
\* entered and the value is unchanged.
ClerkAuthReturn(err) == err

\* ------------------------------------------------------------------ store
Emails == {"a@x.com", "b@x.com"}

RECURSIVE SortAsc(_)
SortAsc(S) ==
  IF S = {} THEN <<>>
  ELSE LET m == CHOOSE x \in S : \A y \in S : x <= y
       IN <<m>> \o SortAsc(S \ {m})

RECURSIVE SortDesc(_)
SortDesc(S) ==
  IF S = {} THEN <<>>
  ELSE LET m == CHOOSE x \in S : \A y \in S : x >= y
       IN <<m>> \o SortDesc(S \ {m})

Ids(rows) == {row.id : row \in rows}

\* findMany({ skip, take }) over rows already ordered, for skip >= 0: a
\* negative take counts from the end of the rows.
SkipTake(ordered, skip, take) ==
  IF skip >= Len(ordered) THEN <<>>
  ELSE IF take >= 0
  THEN SubSeq(ordered, skip + 1,
              IF skip + take < Len(ordered) THEN skip + take
              ELSE Len(ordered))
  ELSE SubSeq(ordered,
              IF Len(ordered) - skip + take + 1 > 1
              THEN Len(ordered) - skip + take + 1 ELSE 1,
              Len(ordered) - skip)

FloorDiv(total, limit) == total \div limit

\* Math.ceil(total / limit) for limit > 0.
CeilDiv(total, limit) ==
  (total \div limit) + (IF total % limit = 0 THEN 0 ELSE 1)

MaxOf(S) == IF S = {} THEN 0 ELSE CHOOSE x \in S : \A y \in S : x >= y

\* --------------------------------------------------------------- requests
OpenRoutes == {"health", "health.ready", "health.live", "unmatched"}

UserRoutes ==
  {"users.list", "users.get", "users.create", "users.update", "users.delete"}

PostRoutes ==
  {"posts.list", "posts.get", "posts.create", "posts.update", "posts.delete"}

AuthRoutes == UserRoutes \cup PostRoutes

Credentials == {"none", "invalid", "valid"}

IdStrings == {"1", "2", "3", "abc"}

NumericStrings == {"1", "2", "3"}

\* parseInt(val, 10) on the strings above; NaN for the others.
ParseInt(str) ==
  CASE str = "1" -> 1 [] str = "2" -> 2 [] str = "3" -> 3
    [] str = "0" -> 0 [] str = "-1" -> -1

\* isNaN(parseInt(val, 10))
NotANumber(str) == str \notin NumericStrings \cup {"0", "-1"}

PageStrings == {Absent, "1", "2"}

\* Every kind of string paginationSchema accepts: z.string().optional().
AnyPageStrings == PageStrings \cup {"", "0", "-1", "abc"}

BodyEmails == Emails \cup {"not-an-email", Absent}

AuthorIds == 0..(MaxUserId + 1)

\* fault: where, if anywhere, emitting the request's log record throws.
Faults == {"none", "log.start", "log.end"}

Request(route, cred) ==
  [after |-> {}, route |-> route, cred |-> cred, id |-> "1", email |-> Absent,
   authorId |-> 0, bodyOk |-> TRUE, page |-> Absent, limit |-> Absent,
   fault |-> "none"]

Requests ==
  { Request(rt, c) : rt \in OpenRoutes, c \in Credentials } \cup
  { [Request(rt, c) EXCEPT !.page = p, !.limit = l] :
      rt \in {"users.list", "posts.list"}, c \in Credentials,
      p \in PageStrings, l \in PageStrings } \cup
  { [Request(rt, c) EXCEPT !.id = i] :
      rt \in {"users.get", "users.delete", "posts.get", "posts.delete"},
      c \in Credentials, i \in IdStrings } \cup
  { [Request("users.create", c) EXCEPT !.email = m] :
      c \in Credentials, m \in BodyEmails } \cup
  { [Request("users.update", c) EXCEPT !.id = i, !.email = m] :
      c \in Credentials, i \in IdStrings, m \in BodyEmails } \cup
  { [Request("posts.create", c) EXCEPT !.authorId = a, !.bodyOk = ok] :
      c \in Credentials, a \in AuthorIds, ok \in BOOLEAN } \cup
  { [Request("posts.update", c) EXCEPT !.id = i, !.bodyOk = ok] :
      c \in Credentials, i \in IdStrings, ok \in BOOLEAN }

\* zValidator with no hook: a schema failure is answered c.json(result, 400),
\* the safeParse result { success: false, error }.
ValidatorReject == Json(400, {"success", "error"})

\* The outcome of the route's validators, in the order they are declared:
\* "ok", "reject" (schema failure) or "throw" (the id transform throws).
IdThrows(q) == q.id \notin NumericStrings

Validate(q) ==
  CASE q.route \in {"users.list", "posts.list"} -> "ok"
    [] q.route \in {"users.get", "users.delete", "posts.get", "posts.delete"} ->
         IF IdThrows(q) THEN "throw" ELSE "ok"
    [] q.route = "users.create" ->
         IF q.email \in Emails THEN "ok" ELSE "reject"
    [] q.route = "users.update" ->
         IF IdThrows(q) THEN "throw"
         ELSE IF q.email \in Emails \cup {Absent} THEN "ok" ELSE "reject"
    [] q.route = "posts.create" ->
         IF q.bodyOk /\ q.authorId >= 1 THEN "ok" ELSE "reject"
    [] q.route = "posts.update" ->
         IF IdThrows(q) THEN "throw"
         ELSE IF q.bodyOk THEN "ok" ELSE "reject"

InvalidId(q) ==
  ErrorOf(IF q.route \in UserRoutes THEN "Invalid user ID"
          ELSE "Invalid post ID")

\* ------------------------------------------------------------------ state
VARIABLES env, config, prismaInstance, made, users, posts, nextUserId,
          nextPostId, pc, req, ctx, resp, thrown, log

vars == <<env, config, prismaInstance, made, users, posts, nextUserId,
          nextPostId, pc, req, ctx, resp, thrown, log>>

\* The request context: the client c.get("prisma") holds (prisma: whether
\* one is set), the connection string it was made from, the identity fields,
\* the number of queries the request has sent, and the middleware and
\* handlers the request has entered, in the order it entered them.
NoContext ==
  [prisma |-> FALSE, client |-> NoClient, url |-> <<"", "">>,
   user |-> "", userId |-> "", queries |-> 0, stages |-> <<>>]

\* const middlewareConfig = getMiddlewareConfig(): built once, with no
\* request context.
Startup ==
  /\ config = GetMiddlewareConfig(env, FALSE)
  /\ prismaInstance = NoClient
  /\ made = 0

Idle ==
  /\ pc = [r \in Slots |-> "idle"]
  /\ req = [r \in Slots |-> Request("", "none")]
  /\ ctx = [r \in Slots |-> NoContext]
  /\ resp = [r \in Slots |-> NoResponse]
  /\ thrown = [r \in Slots |-> NoError]
  /\ log = [r \in Slots |-> <<>>]

\* The stores a run starts from: empty, one user, and two users of whom
\* the first owns a post.
SeedStores ==
  { [users |-> {}, posts |-> {}],
    [users |-> {[id |-> 1, email |-> "a@x.com"]}, posts |-> {}],
    [users |-> {[id |-> 1, email |-> "a@x.com"],
                [id |-> 2, email |-> "b@x.com"]},
     posts |-> {[id |-> 1, authorId |-> 1]}] }

Store ==
  \E seed \in SeedStores :
    /\ users = seed.users
    /\ posts = seed.posts
    /\ nextUserId = MaxOf(Ids(seed.users)) + 1
    /\ nextPostId = MaxOf(Ids(seed.posts)) + 1

\* ------------------------------------------------------------ the pipeline
LogError == ErrorOf("log failure")

\* What leaves the application once a response exists: the middleware
\* registered before the route unwind in reverse order, the secure-headers
\* one setting its headers and then the logger writing its record; an
\* exception out of the logger goes to app.onError.
Leave(q, response) ==
  IF config.logger /\ q.fault = "log.end"
  THEN ErrorHandler(LogError, IsDevelopment(env))
  ELSE IF config.secureHeaders THEN SecureHeaders(response, env)
  ELSE response

\* The entries the logger has written for the request when the response
\* leaves; started: whether the request is being received in this step.
Logged(r, q, started, response) ==
  log' = [log EXCEPT ![r] =
            @ \o (IF started THEN RequestStarted(config) ELSE <<>>)
              \o (IF q.fault = "log.end" THEN <<>>
                  ELSE RequestCompleted(config, response.status))]

\* app.onError: the thrown value goes through errorHandler.
FailFrom(r, q, started, err) ==
  /\ resp' = [resp EXCEPT ![r] = Leave(q, ErrorHandler(err, IsDevelopment(env)))]
  /\ thrown' = [thrown EXCEPT ![r] = err]
  /\ pc' = [pc EXCEPT ![r] = "done"]
  /\ Logged(r, q, started, ErrorHandler(err, IsDevelopment(env)))

FailAs(r, q, err) == FailFrom(r, q, TRUE, err)

Fail(r, err) ==
  FailFrom(r, req[r], FALSE,
           IF req[r].route \in AuthRoutes THEN ClerkAuthReturn(err) ELSE err)

RespondFrom(r, q, started, response) ==
  /\ resp' = [resp EXCEPT ![r] = Leave(q, response)]
  /\ pc' = [pc EXCEPT ![r] = "done"]
  /\ Logged(r, q, started, response)
  /\ UNCHANGED thrown

RespondAs(r, q, response) == RespondFrom(r, q, TRUE, response)

Respond(r, response) == RespondFrom(r, req[r], FALSE, response)

\* The request suspends at an await.
Await(r, label) ==
  /\ pc' = [pc EXCEPT ![r] = label]
  /\ UNCHANGED <<resp, thrown, log>>

\* The first await of a request: the logger has written its first entry.
AwaitAs(r, label) ==
  /\ pc' = [pc EXCEPT ![r] = label]
  /\ UNCHANGED <<resp, thrown>>
  /\ log' = [log EXCEPT ![r] = @ \o RequestStarted(config)]

Queried(r) == ctx' = [ctx EXCEPT ![r].queries = @ + 1]

GlobalStagesDatabaseFirst ==
  <<"withPrisma", "requestId", "logger", "telemetry", "cors",
    "secureHeaders", "compress">>

\* applyMiddleware's six app.use("*", ...) calls, in the order it makes
\* them, and then app.use("*", withPrisma).
GlobalStages ==
  <<"requestId", "logger", "telemetry", "cors", "secureHeaders",
    "compress", "withPrisma">>

\* withPrisma: if (!c.get("prisma")) c.set("prisma", getPrismaClient(c)).
WithPrisma(c, got) ==
  IF c.prisma THEN c
  ELSE [c EXCEPT !.prisma = TRUE, !.client = got.client, !.url = got.url]

Entered(c, names) == [c EXCEPT !.stages = @ \o names]

\* A request arrives and runs, without suspending, the global middleware
\* (withPrisma last), the route match and, on an authenticated route, the
\* synchronous part of clerkAuth.
ReceiveFrom(r, offered) ==
  /\ pc[r] = "idle"
  /\ \E q \in offered :
       LET got == GetPrismaClient(env, TRUE, prismaInstance, made) IN
       /\ req' = [req EXCEPT ![r] =
                    [q EXCEPT !.after = {x \in Slots : pc[x] = "done"}]]
       /\ IF config.logger /\ q.fault = "log.start"
          THEN /\ resp' = [resp EXCEPT ![r] =
                           ErrorHandler(LogError, IsDevelopment(env))]
               /\ thrown' = [thrown EXCEPT ![r] = LogError]
               /\ pc' = [pc EXCEPT ![r] = "done"]
               /\ ctx' = [ctx EXCEPT ![r] =
                           Entered(@, SubSeq(GlobalStages, 1, 2))]
               /\ UNCHANGED log
               /\ UNCHANGED <<prismaInstance, made>>
          ELSE /\ prismaInstance' = got.instance
               /\ made' = got.made
               /\ IF got.url = Throws
                  THEN /\ FailAs(r, q, ErrorOf("DATABASE_URL or PRISMA_ACCELERATE_URL must be set in environment variables"))
                       /\ ctx' = [ctx EXCEPT ![r] = Entered(@, GlobalStages)]
                  ELSE LET c == WithPrisma(Entered(ctx[r], GlobalStages), got)
                       IN CASE q.route = "unmatched" ->
                                 /\ RespondAs(r, q, NotFoundHandler)
                                 /\ ctx' = [ctx EXCEPT ![r] =
                                             Entered(c, <<"notFoundHandler">>)]
                            [] q.route = "health" ->
                                 /\ RespondAs(r, q,
                                      [Json(200, {"status", "timestamp", "service"})
                                         EXCEPT !.tag = "ok"])
                                 /\ ctx' = [ctx EXCEPT ![r] =
                                             Entered(c, <<"handler">>)]
                            [] q.route = "health.live" ->
                                 /\ RespondAs(r, q,
                                      [Json(200, {"status", "timestamp"})
                                         EXCEPT !.tag = "alive"])
                                 /\ ctx' = [ctx EXCEPT ![r] =
                                             Entered(c, <<"handler">>)]
                            [] q.route = "health.ready" ->
                                 /\ AwaitAs(r, "probe")
                                 /\ ctx' = [ctx EXCEPT ![r] =
                                             Entered(c, <<"handler">>)]
                            [] OTHER ->
                                 /\ IF CreateClerkMiddleware(env) # NoError
                                    THEN FailAs(r, q, ClerkCatch(CreateClerkMiddleware(env)))
                                    ELSE AwaitAs(r, "auth")
                                 /\ ctx' = [ctx EXCEPT ![r] =
                                             Entered(c, <<"clerkAuth">>)]
  /\ UNCHANGED <<env, config, users, posts, nextUserId, nextPostId>>

\* The identity provider's verdict arrives: getAuth(c).userId is the subject
\* of a valid token and null otherwise. Then the route's validators run.
SubjectOfAnyToken(cred) == IF cred # "none" THEN "user_1" ELSE ""

SubjectOf(cred) == IF cred = "valid" THEN "user_1" ELSE ""

SignedOutNever(subject) == FALSE

\* if (!auth?.userId)
SignedOut(subject) == subject = ""

Authenticate(r) ==
  /\ pc[r] = "auth"
  /\ IF SignedOut(SubjectOf(req[r].cred))
     THEN /\ Fail(r, HTTPException(401, "Unauthorized: Authentication required"))
          /\ UNCHANGED ctx
     ELSE /\ ctx' = [ctx EXCEPT ![r].user = SubjectOf(req[r].cred),
                                ![r].userId = SubjectOf(req[r].cred),
                                ![r].stages =
                                   @ \o (IF Validate(req[r]) = "ok"
                                         THEN <<"zValidator", "handler">>
                                         ELSE <<"zValidator">>)]
          /\ CASE Validate(req[r]) = "ok" -> Await(r, "handler")
               [] Validate(req[r]) = "reject" -> Respond(r, ValidatorReject)
               [] Validate(req[r]) = "throw" -> Fail(r, InvalidId(req[r]))
  /\ UNCHANGED <<env, config, prismaInstance, made,
                 users, posts, nextUserId, nextPostId, req>>

\* GET /health/ready: with a client in the context the probe query runs and
\* succeeds or fails; with none the probe is skipped.
Ready(r) ==
  /\ pc[r] = "probe"
  /\ IF ctx[r].prisma
     THEN /\ \E up \in BOOLEAN :
               IF up
               THEN Respond(r, [Json(200, {"status", "timestamp", "database"})
                                  EXCEPT !.tag = "ready",
                                         !.database = "connected"])
               ELSE Respond(r, [Json(503, {"status", "timestamp", "database",
                                           "error"})
                                  EXCEPT !.tag = "not ready",
                                         !.database = "disconnected"])
          /\ Queried(r)
     ELSE /\ Respond(r, [Json(200, {"status", "timestamp", "database"})
                           EXCEPT !.tag = "ready", !.database = "connected"])
          /\ UNCHANGED ctx
  /\ UNCHANGED <<env, config, prismaInstance, made,
                 users, posts, nextUserId, nextPostId, req>>

\* ----------------------------------------------------------- list handlers
DefaultPage == 1
DefaultLimit == 10

\* .transform((val) => (val ? parseInt(val, 10) : 1)): an absent and an
\* empty value give the default.
Defaulted(str) == str \in {Absent, ""}

PageIsNaN(q) == ~Defaulted(q.page) /\ NotANumber(q.page)

LimitIsNaN(q) == ~Defaulted(q.limit) /\ NotANumber(q.limit)

PageOf(q) == IF Defaulted(q.page) THEN DefaultPage ELSE ParseInt(q.page)

LimitOf(q) == IF Defaulted(q.limit) THEN DefaultLimit ELSE ParseInt(q.limit)

SkipWholePages(q) == PageOf(q) * LimitOf(q)

\* const skip = (page - 1) * limit, NaN when page or limit is.
SkipIsNaN(q) == PageIsNaN(q) \/ LimitIsNaN(q)

SkipOf(q) == (PageOf(q) - 1) * LimitOf(q)

\* Math.ceil(total / limit): for limit = 0 the quotient is infinite or NaN.
TotalPages(total, limit) ==
  IF limit > 0 THEN CeilDiv(total, limit)
  ELSE IF limit < 0 THEN 0 - (total \div (0 - limit))
  ELSE 0

\* c.json({ data, pagination: { page, limit, total, totalPages } })
ListResponse(q, items, total) ==
  [Json(200, {"data", "pagination"}) EXCEPT
     !.items = items, !.page = PageOf(q), !.limit = LimitOf(q),
     !.total = total, !.totalPages = TotalPages(total, LimitOf(q)),
     !.nulls = IF LimitOf(q) = 0 THEN {"totalPages"} ELSE {}]

\* The store refuses a findMany whose skip is negative or not a number.
BadSkip(q) == SkipIsNaN(q) \/ SkipOf(q) < 0

\* Promise.all([findMany, count]): two queries, answered in either order and
\* not in one transaction. The first answer is kept in the slot's response;
\* a refused findMany rejects the Promise.all and the handler throws.
FindMany(r, route, ordered) ==
  /\ req[r].route = route
  /\ pc[r] \in {"handler", "counted"}
  /\ IF BadSkip(req[r])
     THEN Fail(r, PrismaError(NoCode))
     ELSE LET items == SkipTake(ordered, SkipOf(req[r]), LimitOf(req[r])) IN
          IF pc[r] = "handler"
          THEN /\ resp' = [resp EXCEPT ![r].items = items]
               /\ pc' = [pc EXCEPT ![r] = "found"]
               /\ UNCHANGED <<thrown, log>>
          ELSE Respond(r, ListResponse(req[r], items, resp[r].total))
  /\ Queried(r)
  /\ UNCHANGED <<env, config, prismaInstance, made,
                 users, posts, nextUserId, nextPostId, req>>

Count(r, route, rows) ==
  /\ req[r].route = route
  /\ pc[r] \in {"handler", "found"}
  /\ IF pc[r] = "handler"
     THEN /\ resp' = [resp EXCEPT ![r].total = Cardinality(rows)]
          /\ pc' = [pc EXCEPT ![r] = "counted"]
          /\ UNCHANGED <<thrown, log>>
     ELSE Respond(r, ListResponse(req[r], resp[r].items, Cardinality(rows)))
  /\ Queried(r)
  /\ UNCHANGED <<env, config, prismaInstance, made,
                 users, posts, nextUserId, nextPostId, req>>

UsersFindMany(r) == FindMany(r, "users.list", SortAsc(Ids(users)))

UsersCount(r) == Count(r, "users.list", users)

PostsFindMany(r) == FindMany(r, "posts.list", SortDesc(Ids(posts)))

PostsCount(r) == Count(r, "posts.list", posts)

\* ----------------------------------------------------------- user handlers
IdOf(q) == ParseInt(q.id)

Handling(r, route) == pc[r] = "handler" /\ req[r].route = route

\* GET /users/:id
UsersGet(r) ==
  /\ Handling(r, "users.get")
  /\ IF IdOf(req[r]) \in Ids(users)
     THEN Respond(r, Json(200, {"data"}))
     ELSE Fail(r, HTTPException(404, "User not found"))
  /\ Queried(r)
  /\ UNCHANGED <<env, config, prismaInstance, made,
                 users, posts, nextUserId, nextPostId, req>>

\* prisma.user.create: the unique index on email rejects a duplicate (P2002).
UserCreateError(table, email) ==
  IF \E u \in table : u.email = email THEN PrismaError("P2002") ELSE NoError

UsersCreateCatchRethrow(err) == err

UsersCreateCatchBadRequest(err) ==
  IF IsObject(err) /\ err.code = "P2002"
  THEN HTTPException(400, "User with this email already exists")
  ELSE err

\* The catch block of POST /users.
UsersCreateCatch(err) ==
  IF IsObject(err) /\ err.code = "P2002"
  THEN HTTPException(409, "User with this email already exists")
  ELSE err

\* POST /users
UsersCreate(r) ==
  /\ Handling(r, "users.create")
  /\ IF UserCreateError(users, req[r].email) # NoError
     THEN /\ Fail(r, UsersCreateCatch(UserCreateError(users, req[r].email)))
          /\ UNCHANGED <<users, nextUserId>>
     ELSE /\ nextUserId <= MaxUserId
          /\ users' = users \cup {[id |-> nextUserId, email |-> req[r].email]}
          /\ nextUserId' = nextUserId + 1
          /\ Respond(r, [Json(201, {"data"}) EXCEPT !.items = <<nextUserId>>])
  /\ Queried(r)
  /\ UNCHANGED <<env, config, prismaInstance, made, posts, nextPostId, req>>

\* prisma.user.update: no row gives P2025, a taken email gives P2002.
UserUpdateError(table, id, email) ==
  IF id \notin Ids(table) THEN PrismaError("P2025")
  ELSE IF \E u \in table : u.email = email /\ u.id # id
  THEN PrismaError("P2002")
  ELSE NoError

\* The catch block of the PUT and DELETE handlers.
NotFoundCatch(err, message) ==
  IF IsObject(err) /\ err.code = "P2025"
  THEN HTTPException(404, message)
  ELSE err

\* PUT /users/:id
UsersUpdate(r) ==
  /\ Handling(r, "users.update")
  /\ LET err == UserUpdateError(users, IdOf(req[r]), req[r].email) IN
       IF err # NoError
       THEN /\ Fail(r, NotFoundCatch(err, "User not found"))
            /\ UNCHANGED users
       ELSE /\ users' =
                 { IF u.id = IdOf(req[r]) /\ req[r].email # Absent
                   THEN [u EXCEPT !.email = req[r].email] ELSE u : u \in users }
            /\ Respond(r, Json(200, {"data"}))
  /\ Queried(r)
  /\ UNCHANGED <<env, config, prismaInstance, made,
                 posts, nextUserId, nextPostId, req>>

\* DELETE /users/:id. What the store does with the posts of a deleted user
\* is set by the relation's referential action: it removes them (Cascade) or
\* refuses the delete with P2003 (Restrict).
UsersDelete(r) ==
  /\ Handling(r, "users.delete")
  /\ IF IdOf(req[r]) \notin Ids(users)
     THEN /\ Fail(r, NotFoundCatch(PrismaError("P2025"), "User not found"))
          /\ UNCHANGED <<users, posts>>
     ELSE \/ /\ users' = {u \in users : u.id # IdOf(req[r])}
             /\ posts' = {x \in posts : x.authorId # IdOf(req[r])}
             /\ Respond(r, [Json(200, {"message"}) EXCEPT
                              !.message = "User deleted successfully"])
          \/ /\ \E x \in posts : x.authorId = IdOf(req[r])
             /\ Fail(r, NotFoundCatch(PrismaError("P2003"), "User not found"))
             /\ UNCHANGED <<users, posts>>
  /\ Queried(r)
  /\ UNCHANGED <<env, config, prismaInstance, made, nextUserId, nextPostId, req>>

\* ----------------------------------------------------------- post handlers
\* GET /posts/:id
PostsGet(r) ==
  /\ Handling(r, "posts.get")
  /\ IF IdOf(req[r]) \in Ids(posts)
     THEN Respond(r, Json(200, {"data"}))
     ELSE Fail(r, HTTPException(404, "Post not found"))
  /\ Queried(r)
  /\ UNCHANGED <<env, config, prismaInstance, made,
                 users, posts, nextUserId, nextPostId, req>>

PostsCreateUnchecked(r) ==
  /\ Handling(r, "posts.create")
  /\ Await(r, "insert")
  /\ Queried(r)
  /\ UNCHANGED <<env, config, prismaInstance, made,
                 users, posts, nextUserId, nextPostId, req>>

\* POST /posts, first query: prisma.user.findUnique on the author.
PostsCreateCheck(r) ==
  /\ Handling(r, "posts.create")
  /\ IF req[r].authorId \in Ids(users)
     THEN Await(r, "insert")
     ELSE Fail(r, HTTPException(404, "Author not found"))
  /\ Queried(r)
  /\ UNCHANGED <<env, config, prismaInstance, made,
                 users, posts, nextUserId, nextPostId, req>>

\* POST /posts, second query: prisma.post.create; the foreign key on the
\* author rejects a missing one (P2003), which the handler rethrows.
PostsCreateInsert(r) ==
  /\ pc[r] = "insert"
  /\ IF req[r].authorId \notin Ids(users)
     THEN /\ Fail(r, PrismaError("P2003"))
          /\ UNCHANGED <<posts, nextPostId>>
     ELSE /\ nextPostId <= MaxPostId
          /\ posts' = posts \cup
                        {[id |-> nextPostId, authorId |-> req[r].authorId]}
          /\ nextPostId' = nextPostId + 1
          /\ Respond(r, Json(201, {"data"}))
  /\ Queried(r)
  /\ UNCHANGED <<env, config, prismaInstance, made, users, nextUserId, req>>

\* PUT /posts/:id (title, content and published are not part of the state)
PostsUpdate(r) ==
  /\ Handling(r, "posts.update")
  /\ IF IdOf(req[r]) \in Ids(posts)
     THEN Respond(r, Json(200, {"data"}))
     ELSE Fail(r, NotFoundCatch(PrismaError("P2025"), "Post not found"))
  /\ Queried(r)
  /\ UNCHANGED <<env, config, prismaInstance, made,
                 users, posts, nextUserId, nextPostId, req>>

\* DELETE /posts/:id
PostsDelete(r) ==
  /\ Handling(r, "posts.delete")
  /\ IF IdOf(req[r]) \in Ids(posts)
     THEN /\ posts' = {x \in posts : x.id # IdOf(req[r])}
          /\ Respond(r, [Json(200, {"message"}) EXCEPT
                           !.message = "Post deleted successfully"])
     ELSE /\ Fail(r, NotFoundCatch(PrismaError("P2025"), "Post not found"))
          /\ UNCHANGED posts
  /\ Queried(r)
  /\ UNCHANGED <<env, config, prismaInstance, made,
                 users, nextUserId, nextPostId, req>>

\* --------------------------------------------------------- specifications
Handle(r) ==
  \/ UsersFindMany(r) \/ UsersCount(r) \/ UsersGet(r) \/ UsersCreate(r)
  \/ UsersUpdate(r) \/ UsersDelete(r)
  \/ PostsFindMany(r) \/ PostsCount(r) \/ PostsGet(r) \/ PostsCreateCheck(r)
  \/ PostsCreateInsert(r) \/ PostsUpdate(r) \/ PostsDelete(r)

\* One request, any request, in every environment.
Receive == ReceiveFrom(1, Requests)

Next == Receive \/ Authenticate(1) \/ Ready(1) \/ Handle(1)

Init ==
  /\ env \in Envs
  /\ Startup
  /\ Store
  /\ Idle

Spec == Init /\ [][Next]_vars

\* Concurrent clients: every slot takes one authenticated CRUD request, and
\* the requests interleave at their awaits.
DeployedEnv ==
  [runtime |-> "workerd", nodeEnv |-> "production", bindEnv |-> "production",
   procOrigin |-> Absent, bindOrigin |-> Absent,
   bind |-> {"CLERK_SECRET_KEY", "VITE_CLERK_PUBLISHABLE_KEY", "DATABASE_URL"},
   proc |-> {}]

ConcRoutes ==
  {"users.list", "users.create", "users.update", "users.delete",
   "posts.list", "posts.create", "posts.delete"}

ConcRequests ==
  { q \in Requests :
      /\ q.route \in ConcRoutes
      /\ q.cred = "valid"
      /\ q.id \in {"1", "2"}
      /\ q.bodyOk
      /\ q.route = "users.create" => q.email \in Emails
      /\ q.route = "users.update" => q.email \in Emails
      /\ q.route = "posts.create" => q.authorId \in UserIds
      /\ q.route \in {"users.list", "posts.list"} =>
            q.limit # Absent /\ q.page = "1" }

\* The slots are interchangeable: requests take them in order of arrival.
ReceiveConc(r) ==
  /\ \A x \in Slots : x < r => pc[x] # "idle"
  /\ ReceiveFrom(r, ConcRequests)

HandleConc(r) ==
  \/ UsersFindMany(r) \/ UsersCount(r) \/ UsersCreate(r) \/ UsersUpdate(r)
  \/ UsersDelete(r)
  \/ PostsFindMany(r) \/ PostsCount(r) \/ PostsCreateCheck(r)
  \/ PostsCreateInsert(r) \/ PostsDelete(r)

NextConc ==
  \E r \in Slots : ReceiveConc(r) \/ Authenticate(r) \/ HandleConc(r)

InitConc ==
  /\ env = DeployedEnv
  /\ Startup
  /\ Store
  /\ Idle

SpecConc == InitConc /\ [][NextConc]_vars

\* The configuration alone: getMiddlewareConfig called with a request
\* context, in every placement of NODE_ENV and FRONTEND_URL, and requests
\* that need no credentials answered in that environment.
CfgEnvs ==
  { e \in AllEnvs :
      /\ e.runtime = "node" =>
            e.bind = {} /\ e.bindEnv = Absent /\ e.bindOrigin = Absent
      /\ EnvVars(e).names = {"DATABASE_URL"}
      /\ e.bind \cap e.proc = {} }

Configure ==
  /\ ~config.context
  /\ config' = GetMiddlewareConfig(env, TRUE)
  /\ UNCHANGED <<env, prismaInstance, made, users, posts, nextUserId,
                 nextPostId, pc, req, ctx, resp, thrown, log>>

CfgRequests == { q \in Requests : q.route \in {"health", "unmatched"} }

ReceiveCfg == ReceiveFrom(1, CfgRequests)

NextCfg == Configure \/ ReceiveCfg

InitCfg ==
  /\ env \in CfgEnvs
  /\ Startup
  /\ users = {} /\ posts = {} /\ nextUserId = 1 /\ nextPostId = 1
  /\ Idle

SpecCfg == InitCfg /\ [][NextCfg]_vars

\* Requests that read only, each with and without a failure of the logger
\* at its start or at its end.
LogRequests ==
  { [q EXCEPT !.fault = f] :
      q \in { x \in Requests : /\ x.route \in {"health", "unmatched", "users.get"}
                               /\ x.cred = "valid"
                               /\ x.id \in {"1", "3"} },
      f \in Faults }

ReceiveLog(r) ==
  /\ \A x \in Slots : x < r => pc[x] # "idle"
  /\ ReceiveFrom(r, LogRequests)

NextLog == \E r \in Slots : ReceiveLog(r) \/ Authenticate(r) \/ UsersGet(r)

InitLog ==
  /\ env = DeployedEnv
  /\ Startup
  /\ Store
  /\ Idle

SpecLog == InitLog /\ [][NextLog]_vars

\* The database client alone: every placement of the pooled and the direct
\* connection string in the binding and in the process environment, on both
\* runtimes, with the identity provider's keys where env(c) reads them.
DbNames == {"PRISMA_ACCELERATE_URL", "DATABASE_URL"}

ClerkNames == {"CLERK_SECRET_KEY", "VITE_CLERK_PUBLISHABLE_KEY"}

DbEnvs ==
  { [DeployedEnv EXCEPT !.runtime = "workerd", !.bind = ClerkNames \cup b,
                        !.proc = p] :
      b \in SUBSET DbNames, p \in SUBSET DbNames } \cup
  { [DeployedEnv EXCEPT !.runtime = "node", !.bindEnv = Absent, !.bind = {},
                        !.proc = ClerkNames \cup p] :
      p \in SUBSET DbNames }

DbRequests ==
  { q \in Requests : /\ q.route \in {"health", "users.get"}
                     /\ q.cred = "valid"
                     /\ q.id = "1" }

ReceiveDb(r) ==
  /\ \A x \in Slots : x < r => pc[x] # "idle"
  /\ ReceiveFrom(r, DbRequests)

NextDb == \E r \in Slots : ReceiveDb(r) \/ Authenticate(r) \/ UsersGet(r)

InitDb ==
  /\ env \in DbEnvs
  /\ Startup
  /\ Store
  /\ Idle

SpecDb == InitDb /\ [][NextDb]_vars

\* The structured logger: createLoggerMiddleware given structured: true and
\* each minimum level (or none), over requests answered 200, 401, 404 and
\* 500.
SevRequests ==
  { q \in Requests : /\ q.route \in {"health", "unmatched", "users.get"}
                     /\ q.cred \in {"none", "valid"}
                     /\ q.id \in {"1", "3"} }

ReceiveSev(r) ==
  /\ \A x \in Slots : x < r => pc[x] # "idle"
  /\ ReceiveFrom(r, SevRequests)

NextSev == \E r \in Slots : ReceiveSev(r) \/ Authenticate(r) \/ UsersGet(r)

InitSev ==
  /\ env \in {DeployedEnv, [DeployedEnv EXCEPT !.bind = ClerkNames]}
  /\ \E l \in {"debug", "info", "warn", "error", Absent} :
       config = [GetMiddlewareConfig(env, FALSE) EXCEPT
                   !.structured = TRUE, !.level = l]
  /\ prismaInstance = NoClient
  /\ made = 0
  /\ Store
  /\ Idle

SpecSev == InitSev /\ [][NextSev]_vars

\* The list endpoints alone, over every kind of page and limit string the
\* pagination schema accepts.
PageRequests ==
  { [Request(rt, "valid") EXCEPT !.page = p, !.limit = l] :
      rt \in {"users.list", "posts.list"},
      p \in AnyPageStrings, l \in AnyPageStrings }

ReceivePage == ReceiveFrom(1, PageRequests)

NextPage ==
  \/ ReceivePage \/ Authenticate(1)
  \/ UsersFindMany(1) \/ UsersCount(1) \/ PostsFindMany(1) \/ PostsCount(1)

InitPage ==
  /\ env = DeployedEnv
  /\ Startup
  /\ Store
  /\ Idle

SpecPage == InitPage /\ [][NextPage]_vars

\* The error boundary alone: errorHandler applied to any thrown value.
ErrorMessages == {"boom", "connection refused at 10.0.0.5"}

Issues == [path : IssuePaths, message : {"Required"}]

IssueLists == UNION { [1..n -> Issues] : n \in 0..MaxIssues }

ThrownValues ==
  { [Thrown(k, 0, m, c, FALSE, <<>>) EXCEPT !.status = st, !.hasCause = hc] :
      k \in {"HTTPException"}, m \in ErrorMessages,
      c \in {NoCode, "P2002", "P2025"}, st \in {404, 409}, hc \in BOOLEAN } \cup
  { Thrown("HTTPException", 404, "boom", NoCode, TRUE, iss) :
      iss \in IssueLists } \cup
  { Thrown(k, 0, m, c, FALSE, <<>>) :
      k \in {"Error", "object"}, m \in ErrorMessages,
      c \in {NoCode, "P2002", "P2025", "P2003"} } \cup
  { Thrown("Error", 0, "boom", c, TRUE, iss) :
      c \in {NoCode, "P2025", "P2003"}, iss \in IssueLists } \cup
  { Thrown(k, 0, "boom", NoCode, FALSE, <<>>) : k \in {"string", "null"} }

Translate(r) ==
  /\ pc[r] = "idle"
  /\ \E err \in ThrownValues : Fail(r, err)
  /\ UNCHANGED <<env, config, prismaInstance, made,
                 users, posts, nextUserId, nextPostId, req, ctx>>

\* Two thrown values at a time: enough to compare two answers.
ErrSlots == {1, 2}

NextErr == \E r \in ErrSlots : Translate(r)

InitErr ==
  /\ env \in { e \in Envs : EnvVars(e).names = DeployedEnv.bind
                             /\ e.bind \cap e.proc = {} }
  /\ Startup
  /\ users = {} /\ posts = {} /\ nextUserId = 1 /\ nextPostId = 1
  /\ Idle

SpecErr == InitErr /\ [][NextErr]_vars

\* ------------------------------------------------------------- properties
Done(r) == pc[r] = "done"

Configured(e) ==
  /\ GetDatabaseUrl(e) # Throws
  /\ GetClerkSecretKey(e) # Throws
  /\ GetClerkPublishableKey(e) # Throws

NoHeader(r) == Done(r) /\ req[r].route \in AuthRoutes /\ req[r].cred = "none"

Unauthorized(response) ==
  /\ response.status = 401
  /\ response.message = "Unauthorized: Authentication required"

SecretMissing(r) ==
  /\ Done(r)
  /\ req[r].route \in AuthRoutes
  /\ GetClerkSecretKey(env) = Throws

RuleOf(err) ==
  IF err.kind = "HTTPException" THEN 1
  ELSE IF IsObject(err) /\ err.code \in {"P2002", "P2025"} THEN 2
  ELSE IF IsObject(err) /\ err.hasIssues THEN 3
  ELSE 4

\* C3: errorHandler answers every thrown value by the first matching rule of
\* (1) HTTPException: its status and message, (2) code P2002: 409, code
\* P2025: 404, (3) issues: 400 with one {path, message} entry per issue,
\* (4) anything else: 500.
C3_Classification ==
  \A r \in Slots :
    Done(r) =>
      LET err == thrown[r]
          out == resp[r]
      IN /\ RuleOf(err) = 1 =>
              out.status = err.status /\ out.message = err.message
         /\ RuleOf(err) = 2 /\ err.code = "P2002" => out.status = 409
         /\ RuleOf(err) = 2 /\ err.code = "P2025" => out.status = 404
         /\ RuleOf(err) = 3 =>
              /\ out.status = 400
              /\ Len(out.details.items) = Len(err.issues)
              /\ \A i \in 1..Len(err.issues) :
                   /\ out.details.items[i].path = JoinDot(err.issues[i].path)
                   /\ out.details.items[i].message = err.issues[i].message
         /\ RuleOf(err) = 4 => out.status = 500

\* A value with an ORM code other than the two mapped ones and with issues
\* is answered by rule 3.
C3_Witness ==
  \E r \in Slots :
    /\ Done(r)
    /\ thrown[r].code = "P2003"
    /\ Len(thrown[r].issues) = MaxIssues
    /\ resp[r].status = 400
    /\ Len(resp[r].details.items) = MaxIssues

UnclassifiedAnswer(r) ==
  Done(r) /\ resp[r].code = "INTERNAL_SERVER_ERROR"

Literal(r) ==
  resp[r].message = thrown[r].message \/ "details" \in resp[r].errorKeys

\* C4 as stated: an unclassified 500 carries the exception message or stack
\* only outside production; with the environment tag production, on every
\* runtime, its message is "Internal server error" with no details, so two
\* such answers are the same.
C4_AsStated ==
  /\ \A r \in Slots :
       UnclassifiedAnswer(r) =>
         /\ Literal(r) => env.nodeEnv # "production"
         /\ env.nodeEnv = "production" =>
              /\ resp[r].message = "Internal server error"
              /\ "details" \notin resp[r].errorKeys
  /\ \A r1, r2 \in Slots :
       /\ UnclassifiedAnswer(r1) /\ UnclassifiedAnswer(r2)
       /\ env.nodeEnv = "production"
       => resp[r1] = resp[r2]

IsEnvelope(response) ==
  /\ EnvelopeKeys \subseteq response.keys
  /\ "message" \in response.errorKeys

\* C5 as stated: every response with status >= 400 is JSON in the one
\* envelope shape carrying error.message, timestamp and path.
C5_AsStated ==
  \A r \in Slots :
    Done(r) /\ resp[r].status >= 400 => IsEnvelope(resp[r])

Creates(r, email) ==
  Done(r) /\ req[r].route = "users.create" /\ req[r].email = email

\* No request other than r1 and r2 ran while either of them was in flight.
Alone(r1, r2) ==
  \A x \in Slots \ {r1, r2} :
    pc[x] = "idle" \/ (x \in req[r1].after /\ x \in req[r2].after)

\* A create handler completes while a user already holds the email.
C6_Step ==
  \A r \in Slots :
    /\ Handling(r, "users.create")
    /\ pc'[r] = "done"
    /\ \E u \in users : u.email = req[r].email
    => /\ resp'[r].status = 409
       /\ users' = users

C6_Successive ==
  \A r1, r2 \in Slots : \A email \in Emails :
    /\ Creates(r1, email) /\ Creates(r2, email)
    /\ r1 \in req[r2].after
    /\ Alone(r1, r2)
    /\ resp[r1].status = 201
    => resp[r2].status = 409

\* C6: POST /api/users with an email a user already holds is answered 409
\* and leaves the set of users unchanged; of two identical creates in
\* succession the first is answered 201 and the second 409.
C6_DuplicateEmail == [][C6_Step /\ C6_Successive']_vars

C6_Witness ==
  \E r1, r2 \in Slots :
    /\ Creates(r1, "a@x.com") /\ Creates(r2, "a@x.com")
    /\ r1 \in req[r2].after
    /\ resp[r1].status = 201
    /\ resp[r2].status = 409
    /\ resp[r2].message = "User with this email already exists"
    /\ Cardinality(users) = 1

Succeeded(r) == resp[r].status \in {200, 201}

SetsEmail(r, email) ==
  Done(r) /\ req[r].route \in {"users.create", "users.update"}
          /\ req[r].email = email

\* The update of r names a row that exists and that q did not create.
OtherRow(r, q) ==
  req[r].route = "users.update" =>
    /\ IdOf(req[r]) \in Ids(users)
    /\ Succeeded(q) => resp[q].items # <<IdOf(req[r])>>

ById(q) ==
  q.route \in {"users.get", "users.update", "users.delete",
               "posts.get", "posts.update", "posts.delete"}

Missing(q) ==
  IF q.route \in UserRoutes THEN IdOf(q) \notin Ids(users)
  ELSE IdOf(q) \notin Ids(posts)

\* A by-id handler completes for an id that names no row.
C8_Step ==
  \A r \in Slots :
    /\ pc[r] = "handler" /\ ById(req[r]) /\ Missing(req[r])
    /\ pc'[r] = "done"
    => /\ resp'[r].status = 404
       /\ IsEnvelope(resp'[r])
       /\ users' = users
       /\ posts' = posts

\* C8: GET, PUT and DELETE on /api/users/:id and /api/posts/:id with an
\* integer id that names no row are answered 404 in the envelope, and the
\* store is unchanged.
C8_NotFound == [][C8_Step]_vars

C8_Witness ==
  \E r \in Slots :
    /\ Done(r) /\ req[r].route = "users.update"
    /\ ctx[r].queries = 1
    /\ IdOf(req[r]) \notin Ids(users)
    /\ resp[r].status = 404
    /\ resp[r].message = "User not found"

\* The author check of a create runs while no user has the authorId.
C9_Step ==
  \A r \in Slots :
    /\ Handling(r, "posts.create")
    /\ req[r].authorId \notin Ids(users)
    /\ pc'[r] # pc[r]
    => /\ pc'[r] = "done"
       /\ resp'[r].status = 404
       /\ resp'[r].message = "Author not found"
       /\ ctx'[r].queries = 1
       /\ posts' = posts
       /\ nextPostId' = nextPostId

\* C9: POST /api/posts whose authorId names no user is answered 404 and
\* inserts no post.
C9_MissingAuthor == [][C9_Step]_vars

\* The author was deleted by another request before the check ran.
C9_Witness ==
  \E r1, r2 \in Slots :
    /\ Done(r1) /\ req[r1].route = "users.delete" /\ resp[r1].status = 200
    /\ Done(r2) /\ req[r2].route = "posts.create"
    /\ req[r2].authorId = IdOf(req[r1])
    /\ resp[r2].status = 404
    /\ resp[r2].message = "Author not found"

Listed(r) ==
  Done(r) /\ req[r].route \in {"users.list", "posts.list"}
          /\ resp[r].status = 200

\* C10: a list response has totalPages = ceil(total / limit), the least n with
\* n * limit >= total, and at most limit items, for page >= 1 and limit >= 1.
C10_Pagination ==
  \A r \in Slots :
    Listed(r) /\ resp[r].page >= 1 /\ resp[r].limit >= 1 =>
      /\ resp[r].totalPages * resp[r].limit >= resp[r].total
      /\ (resp[r].totalPages - 1) * resp[r].limit < resp[r].total
      /\ resp[r].totalPages >= 0
      /\ Len(resp[r].items) <= resp[r].limit

\* A total that is not a multiple of the limit.
C10_Witness ==
  \E r \in Slots :
    /\ Listed(r)
    /\ resp[r].total = 1 /\ resp[r].limit = 2 /\ resp[r].totalPages = 1
    /\ Len(resp[r].items) = 1

\* The rank of a user: its position in ascending id order, from 1.
RankOf(id) == Cardinality({u \in users : u.id <= id})

UsersListed(r) == Listed(r) /\ req[r].route = "users.list"

\* The ids a page of the current users holds.
OnPage(p, l) ==
  { u.id : u \in { v \in users : RankOf(v.id) \in ((p - 1) * l + 1)..(p * l) } }

\* C11: over a fixed set of users, page p with limit l holds exactly the users
\* at ranks (p-1)*l+1 .. p*l in ascending id order, and pages 1..totalPages
\* hold every user exactly once.
C11_Pages ==
  \A r \in Slots :
    UsersListed(r) =>
      LET p == resp[r].page
          l == resp[r].limit
          items == resp[r].items
      IN /\ { items[i] : i \in 1..Len(items) } = OnPage(p, l)
         /\ \A i \in 1..Len(items) : RankOf(items[i]) = (p - 1) * l + i
         /\ \A u \in users :
              \E n \in 1..resp[r].totalPages :
                /\ u.id \in OnPage(n, l)
                /\ \A k \in 1..resp[r].totalPages :
                     u.id \in OnPage(k, l) => k = n

\* Two users, page 2 of limit 1: the second user only, and two pages.
C11_Witness ==
  \E r \in Slots :
    /\ UsersListed(r)
    /\ Cardinality(users) = 2
    /\ resp[r].page = 2 /\ resp[r].limit = 1
    /\ resp[r].items = <<2>>
    /\ resp[r].totalPages = 2

Answered(r, route) == Done(r) /\ req[r].route = route

\* C12 as stated: in every environment, GET /api/health is answered 200 with
\* status "ok", a timestamp and the service name, and GET /api/health/live
\* is answered 200 with status "alive".
C12_AsStated ==
  \A r \in Slots :
    /\ Answered(r, "health") =>
         /\ resp[r].status = 200
         /\ resp[r].tag = "ok"
         /\ resp[r].keys = {"status", "timestamp", "service"}
    /\ Answered(r, "health.live") =>
         /\ resp[r].status = 200
         /\ resp[r].tag = "alive"

\* C13 as stated: GET /api/health/ready is answered 200 with database
\* "connected" exactly when the probe query ran and succeeded, and 503 with
\* database "disconnected" in every other case.
C13_AsStated ==
  \A r \in Slots :
    Answered(r, "health.ready") =>
      \/ /\ resp[r].status = 200
         /\ resp[r].database = "connected"
         /\ ctx[r].queries = 1
      \/ /\ resp[r].status = 503
         /\ resp[r].database = "disconnected"

RouteNotFound(response) ==
  /\ response.status = 404
  /\ response.code = "NOT_FOUND"
  /\ response.message = "Route not found"
  /\ IsEnvelope(response)

Rejected(r) ==
  /\ Done(r)
  /\ req[r].route \in AuthRoutes
  /\ ctx[r].userId # ""
  /\ Validate(req[r]) # "ok"

\* C15 as stated: every request that input validation turns down, a
\* non-numeric :id included, is answered 400, never 500, and its handler does
\* not run.
C15_AsStated ==
  \A r \in Slots :
    Rejected(r) =>
      /\ resp[r].status = 400
      /\ ctx[r].queries = 0

\* The environment tag and the allowed origin as the stated policy resolves
\* them: the platform binding's value (reachable through a request context),
\* else the process-level variable, else the default.
ResolvedTag ==
  IF config.context /\ TagOf(env) # Absent THEN TagOf(env) ELSE env.nodeEnv

ResolvedOrigin ==
  IF config.context /\ OriginOf(env) # Absent THEN OriginOf(env)
  ELSE IF env.procOrigin # Absent THEN env.procOrigin
  ELSE DefaultOrigin

\* C16 as stated: secureHeaders.strictMode and telemetry.enabled are true
\* only when the resolved environment tag is "production", and false for
\* every other value, "test" and an absent tag included.
C16_AsStated ==
  /\ config.strictMode <=> ResolvedTag = "production"
  /\ config.telemetry <=> ResolvedTag = "production"

\* C17 as stated: the environment tag and the allowed origin are the
\* binding's value when present, else the process-level value, else the
\* default; a process-level value never overrides the binding's.
C17_AsStated ==
  /\ config.tag = ResolvedTag
  /\ config.origin = ResolvedOrigin

\* The environment tag a request resolves: the binding's, else the process's.
RequestTag == IF TagOf(env) # Absent THEN TagOf(env) ELSE env.nodeEnv

StrictHeaders(response) ==
  /\ "Strict-Transport-Security" \in response.headers
  /\ "upgrade-insecure-requests" \in response.directives
  /\ response.directives \cap {"'unsafe-inline'", "'unsafe-eval'"} = {}

PermissiveHeaders(response) ==
  /\ "Strict-Transport-Security" \notin response.headers
  /\ {"'unsafe-inline'", "'unsafe-eval'"} \subseteq response.directives

\* C18 as stated: the strict security header set is emitted only when the
\* resolved environment is production; in every other environment HSTS is
\* absent and the permissive policy is emitted.
C18_AsStated ==
  \A r \in Slots :
    Done(r) =>
      /\ StrictHeaders(resp[r]) => RequestTag = "production"
      /\ RequestTag # "production" => PermissiveHeaders(resp[r])

SecurityHeaders ==
  {"X-Frame-Options", "X-Content-Type-Options", "Referrer-Policy",
   "Content-Security-Policy"}

SameRequest(q1, q2) ==
  [q1 EXCEPT !.fault = "none", !.after = {}] =
  [q2 EXCEPT !.fault = "none", !.after = {}]

\* C20 as stated: a request during which emitting a log record fails is
\* answered with the status and body the same request gets when logging
\* succeeds.
C20_AsStated ==
  \A r1, r2 \in Slots :
    /\ Done(r1) /\ Done(r2)
    /\ req[r1].fault = "none" /\ req[r2].fault # "none"
    /\ SameRequest(req[r1], req[r2])
    => /\ resp[r2].status = resp[r1].status
       /\ resp[r2].keys = resp[r1].keys
       /\ resp[r2].message = resp[r1].message

\* The connection string the stated order gives: the binding's pooled URL,
\* the binding's direct URL, the process environment's pooled URL, its
\* direct URL.
FirstPresent(e) ==
  IF "PRISMA_ACCELERATE_URL" \in e.bind
  THEN <<"binding", "PRISMA_ACCELERATE_URL">>
  ELSE IF "DATABASE_URL" \in e.bind THEN <<"binding", "DATABASE_URL">>
  ELSE IF "PRISMA_ACCELERATE_URL" \in e.proc
  THEN <<"process", "PRISMA_ACCELERATE_URL">>
  ELSE IF "DATABASE_URL" \in e.proc THEN <<"process", "DATABASE_URL">>
  ELSE Throws

NoDatabaseUrl(err) ==
  /\ err.kind = "Error"
  /\ err.message =
       "DATABASE_URL or PRISMA_ACCELERATE_URL must be set in environment variables"

\* C21: getDatabaseUrl returns the first present of the binding's pooled
\* URL, the binding's direct URL, the process environment's pooled URL and
\* its direct URL; it throws exactly when all four are absent, and then
\* withPrisma attaches no client and no route handler runs.
C21_DatabaseUrl ==
  \A r \in Slots :
    pc[r] # "idle" =>
      /\ FirstPresent(env) # Throws =>
           /\ ctx[r].prisma
           /\ ctx[r].url = FirstPresent(env)
           /\ ~NoDatabaseUrl(thrown[r])
      /\ FirstPresent(env) = Throws =>
           /\ Done(r)
           /\ NoDatabaseUrl(thrown[r])
           /\ ~ctx[r].prisma
           /\ ctx[r].client = NoClient
           /\ ctx[r].stages = GlobalStages
           /\ ctx[r].queries = 0

\* The binding has the direct URL only and the process environment has the
\* pooled one: the binding's is used.
C21_Witness ==
  \E r \in Slots :
    /\ Done(r) /\ req[r].route = "users.get" /\ resp[r].status = 200
    /\ env.bind \cap DbNames = {"DATABASE_URL"}
    /\ env.proc \cap DbNames = DbNames
    /\ ctx[r].url = <<"binding", "DATABASE_URL">>

\* C22 as stated: on the request-scoped runtime every request gets a client
\* of its own, and on the long-lived process runtime the client is
\* constructed once and every request, in any interleaving, gets that one.
C22_AsStated ==
  /\ env.runtime = "node" => made <= 1
  /\ \A r1, r2 \in Slots :
       r1 # r2 /\ ctx[r1].prisma /\ ctx[r2].prisma =>
         /\ env.runtime = "workerd" => ctx[r1].client # ctx[r2].client
         /\ env.runtime = "node" => ctx[r1].client = ctx[r2].client

RouteSteps == {"clerkAuth", "zValidator", "handler", "notFoundHandler"}

Position(stages, name) == CHOOSE i \in 1..Len(stages) : stages[i] = name

Holds(stages, name) == \E i \in 1..Len(stages) : stages[i] = name

Rank(level) ==
  CASE level = "debug" -> 0 [] level = "info" -> 1
    [] level = "warn" -> 2 [] level = "error" -> 3

Severity(status) ==
  IF status >= 500 THEN "error"
  ELSE IF status >= 400 THEN "warn"
  ELSE "info"

\* The configured minimum level; "info" when none is configured.
MinLevel == IF config.level = Absent THEN "info" ELSE config.level

Entries(r, message) ==
  { i \in 1..Len(log[r]) : log[r][i].message = message }

\* C25: the structured logger gives a response status s the severity error
\* when s >= 500, warn when 400 <= s < 500 and info otherwise, writes the
\* "Request completed" entry exactly when that severity is at or above the
\* configured minimum in the order debug < info < warn < error, and writes
\* the "Request started" entry only when the configured level is debug.
C25_Severity ==
  \A r \in Slots :
    config.structured /\ pc[r] # "idle" =>
      /\ Cardinality(Entries(r, "Request started")) =
           (IF MinLevel = "debug" THEN 1 ELSE 0)
      /\ ~Done(r) => Entries(r, "Request completed") = {}
      /\ Done(r) =>
           IF Rank(Severity(resp[r].status)) >= Rank(MinLevel)
           THEN /\ Cardinality(Entries(r, "Request completed")) = 1
                /\ \A i \in Entries(r, "Request completed") :
                     /\ log[r][i].level = Severity(resp[r].status)
                     /\ log[r][i].status = resp[r].status
           ELSE Entries(r, "Request completed") = {}

\* At minimum level warn a 404 is written as warn and a 200 is not written.
C25_Witness ==
  \E r1, r2 \in Slots :
    /\ config.level = "warn"
    /\ Done(r1) /\ resp[r1].status = 200 /\ log[r1] = <<>>
    /\ Done(r2) /\ resp[r2].status = 404
    /\ log[r2] = <<LogEntry("warn", "Request completed", 404)>>

\* The handler of the request sent a query and the request was answered s.
HandlerAnswered(r, routes, s) ==
  /\ Done(r) /\ req[r].route \in routes
  /\ ctx[r].queries >= 1
  /\ resp[r].status = s

\* C24 as stated: the 409 to a duplicate-email create is the translator's
\* answer to a unique-constraint violation, and the handlers hand the ORM's
\* uniqueness and not-found errors to the translator untranslated.
C24_AsStated ==
  \A r \in Slots :
    /\ HandlerAnswered(r, {"users.create"}, 409) =>
         /\ thrown[r].code = "P2002"
         /\ resp[r].code = "UNIQUE_CONSTRAINT_VIOLATION"
         /\ resp[r].message = "A record with this value already exists"
    /\ HandlerAnswered(r, {"users.update", "users.delete", "posts.update",
                           "posts.delete"}, 404) =>
         /\ thrown[r].code = "P2025"
         /\ resp[r].code = "NOT_FOUND"

\* C24 amended: the 409 to a duplicate-email create comes from the handler's
\* own catch block, an HTTPException with the message "User with this email
\* already exists" that the translator answers with error.code "409"; the
\* PUT and DELETE handlers likewise turn the ORM's not-found error into
\* their own 404; only a uniqueness violation on a user update reaches the
\* translator's unique-constraint rule.
C24_LocalTranslation ==
  \A r \in Slots :
    /\ HandlerAnswered(r, {"users.create"}, 409) =>
         /\ thrown[r] =
              HTTPException(409, "User with this email already exists")
         /\ resp[r].code = "409"
         /\ resp[r].message = "User with this email already exists"
    /\ HandlerAnswered(r, {"users.update", "users.delete", "posts.update",
                           "posts.delete"}, 404) =>
         /\ thrown[r].kind = "HTTPException"
         /\ resp[r].code = "404"
         /\ resp[r].message \in {"User not found", "Post not found"}
    /\ HandlerAnswered(r, {"users.update"}, 409) =>
         /\ thrown[r].code = "P2002"
         /\ resp[r].code = "UNIQUE_CONSTRAINT_VIOLATION"
         /\ resp[r].message = "A record with this value already exists"

C24_Witness ==
  \E r \in Slots :
    /\ HandlerAnswered(r, {"users.create"}, 409)
    /\ req[r].email = "a@x.com"
    /\ resp[r].code = "409"
    /\ users = {[id |-> 1, email |-> "a@x.com"]}

\* C26 as stated: however a create-post request interleaves with a delete
\* of its author, no post is persisted whose author does not exist, and the
\* create is answered 201 or 404, never 500.
C26_AsStated ==
  /\ \A x \in posts : x.authorId \in Ids(users)
  /\ \A r \in Slots :
       Done(r) /\ req[r].route = "posts.create" =>
         resp[r].status \in {201, 404}

\* Authentication turned the request down: clerkAuth did not call next().
AuthRejected(r) ==
  /\ Done(r) /\ req[r].route \in AuthRoutes
  /\ Holds(ctx[r].stages, "clerkAuth")
  /\ ~Holds(ctx[r].stages, "zValidator")

FailedDownstream(r) ==
  /\ Done(r) /\ req[r].route \in AuthRoutes
  /\ Holds(ctx[r].stages, "zValidator")
  /\ thrown[r] # NoError

\* C28: an error raised by a validator or handler downstream of clerkAuth
\* reaches the error translator unchanged: clerkAuth turns neither an ORM
\* error nor a generic error whose message contains "Invalid" or
\* "Unauthorized" into 401 "Invalid or expired token" or 500
\* "Authentication error".
C28_Downstream ==
  \A r \in Slots :
    FailedDownstream(r) =>
      /\ thrown[r] # HTTPException(401, "Unauthorized: Invalid or expired token")
      /\ thrown[r] # HTTPException(500, "Authentication error")
      /\ resp[r].status # 401
      /\ Validate(req[r]) = "throw" =>
           /\ thrown[r] = InvalidId(req[r])
           /\ resp[r] = Leave(req[r], ErrorHandler(InvalidId(req[r]),
                                                   IsDevelopment(env)))
      /\ thrown[r].code \in {"P2002", "P2003"} =>
           /\ thrown[r].kind = "Error"
           /\ resp[r] = Leave(req[r], ErrorHandler(thrown[r],
                                                   IsDevelopment(env)))

\* The id transform's "Invalid user ID" is answered as an unclassified 500.
C28_Witness ==
  \E r \in Slots :
    /\ FailedDownstream(r)
    /\ req[r].route = "users.get" /\ req[r].id = "abc"
    /\ thrown[r] = ErrorOf("Invalid user ID")
    /\ resp[r].status = 500
    /\ resp[r].code = "INTERNAL_SERVER_ERROR"

\* C29 as stated: with creates and deletes interleaved between the list
\* endpoint's two queries, a list response has no more items than
\* pagination.total, and page p holds items only if p <= totalPages.
C29_AsStated ==
  \A r \in Slots :
    Listed(r) =>
      /\ Len(resp[r].items) <= resp[r].total
      /\ Len(resp[r].items) > 0 => resp[r].page <= resp[r].totalPages

ListHandled(r) ==
  /\ req[r].route \in {"users.list", "posts.list"}
  /\ Holds(ctx[r].stages, "handler")

\* C30 as stated: for every page and limit string the pagination schema
\* accepts, "0", negative numbers and non-numeric text included, the list
\* endpoint answers 400 or a pagination object whose page, limit and
\* totalPages are finite integers with page >= 1, limit >= 1 and
\* totalPages >= 0, and the offset it passes to the database is never
\* negative or NaN.
C30_AsStated ==
  \A r \in Slots :
    ListHandled(r) =>
      /\ ~SkipIsNaN(req[r]) /\ SkipOf(req[r]) >= 0
      /\ Done(r) =>
           \/ resp[r].status = 400
           \/ /\ resp[r].status = 200
              /\ resp[r].nulls = {}
              /\ resp[r].page >= 1
              /\ resp[r].limit >= 1
              /\ resp[r].totalPages >= 0

====
